---- MODULE Spec2Model ----
(***************************************************************************)
(* TfModiscoWorkflow.__call__ (modisco/tfmodisco_workflow/workflow.py) as  *)
(* a state machine.  A call on the workflow object `self` runs through     *)
(* threshold derivation, collaborator construction,                        *)
(* track construction, seqlet creation, metaclustering, the per-metacluster*)
(* dispatch loop and result assembly.  A Python exception ends the call in *)
(* pc = "failed" with the exception recorded in `error`.                   *)
(*                                                                         *)
(* Abstractions: an input array is represented by its length along the     *)
(* position axis (the only thing __call__ reads from it); a seqlet is an   *)
(* identifier; a float is an exact rational n/d with d > 0; a Python       *)
(* string that the code parses is a sequence of one-character strings.     *)
(***************************************************************************)
EXTENDS Integers, Sequences, FiniteSets, TLC

\* ---------------------------------------------------------------- bounds
MaxSeqs == 2        \* input sequences per call
MaxSeqlets == 3     \* seqlets / metacluster indices returned by collaborators
MaxTasks == 2       \* tasks per call, and tokens per activity pattern

\* Values of metacluster_indices produced by the metaclusterer.
MetaclusterIdxValues == {0, 1}
\* Lengths (position axis) of the one-hot input arrays.
SeqLens == {10, 50, 620, 60020}
\* Per-task activity signs.
Signs == {-1, 0, 1}

\* ------------------------------------------------------ program constants
DefaultSlidingWindowSize == 21
DefaultFlankSize == 10
DefaultMinClusterSize == 100

\* ------------------------------------------------------------- rationals
\* A float is the exact rational n/d, kept in lowest terms.
Abs(x) == IF x < 0 THEN -x ELSE x

RECURSIVE GCD(_, _)
GCD(a, b) == IF b = 0 THEN a ELSE GCD(b, a % b)

Rat(n, d) ==
    LET g == GCD(Abs(n), Abs(d))
    IN IF g = 0 THEN [kind |-> "num", n |-> n, d |-> d]
       ELSE [kind |-> "num", n |-> n \div g, d |-> d \div g]
RatLt(a, b) == a.n * b.d < b.n * a.d
RatGt(a, b) == RatLt(b, a)
RatEq(a, b) == a.n * b.d = b.n * a.d
RatLe(a, b) == ~RatLt(b, a)

\* Python's max(a, b) / min(a, b): the first argument wins a tie.
PyMax(a, b) == IF RatGt(b, a) THEN b ELSE a
PyMin(a, b) == IF RatLt(b, a) THEN b ELSE a

None == [kind |-> "None"]
Auto == [kind |-> "auto"]
Unset == [kind |-> "unset"]

LaplaceCap == Rat(99, 100)
DefaultWeakThreshold == Rat(99, 100)

\* ------------------------------------------------------- string handling
\* str(x) for a small integer, as a sequence of characters.
Digits == <<"0", "1", "2", "3", "4", "5", "6", "7", "8", "9">>

Str(x) ==
    LET mag == IF x < 0 THEN -x ELSE x
        body == IF mag < 10 THEN <<Digits[mag + 1]>>
                ELSE <<Digits[(mag \div 10) + 1], Digits[(mag % 10) + 1]>>
    IN IF x < 0 THEN <<"-">> \o body ELSE body

\* ",".join(str(x) for x in signs): how the metaclusterer writes a pattern.
RECURSIVE JoinPattern(_)
JoinPattern(signs) ==
    IF signs = <<>> THEN <<>>
    ELSE IF Len(signs) = 1 THEN Str(signs[1])
    ELSE Str(signs[1]) \o <<",">> \o JoinPattern(Tail(signs))

\* s.split(","): always at least one token; "" splits to [""].
RECURSIVE SplitFrom(_, _, _)
SplitFrom(s, cur, acc) ==
    IF s = <<>> THEN Append(acc, cur)
    ELSE IF Head(s) = "," THEN SplitFrom(Tail(s), <<>>, Append(acc, cur))
    ELSE SplitFrom(Tail(s), Append(cur, Head(s)), acc)

Split(s) == SplitFrom(s, <<>>, <<>>)

DigitVal(c) == CHOOSE v \in 0..9 : Digits[v + 1] = c
IsDigit(c) == \E v \in 0..9 : Digits[v + 1] = c

RECURSIVE DigitsVal(_, _)
DigitsVal(ds, acc) ==
    IF ds = <<>> THEN acc
    ELSE DigitsVal(Tail(ds), 10 * acc + DigitVal(Head(ds)))

\* int(tok): optional sign, then one or more digits; anything else raises.
ParseInt(tok) ==
    LET signed == tok # <<>> /\ Head(tok) \in {"-", "+"}
        ds == IF signed THEN Tail(tok) ELSE tok
        ok == ds # <<>> /\ \A i \in 1..Len(ds) : IsDigit(ds[i])
    IN IF ~ok THEN [ok |-> FALSE, val |-> 0]
       ELSE [ok |-> TRUE,
             val |-> IF signed /\ Head(tok) = "-"
                     THEN -DigitsVal(ds, 0) ELSE DigitsVal(ds, 0)]

\* [int(x) for x in pattern.split(",")], each entry with its success flag
ParsePattern(pattern) ==
    LET tokens == Split(pattern)
    IN [i \in 1..Len(tokens) |-> ParseInt(tokens[i])]

ParsedValues(parsed) == [i \in 1..Len(parsed) |-> parsed[i].val]

\* ------------------------------------------------------ threshold (109-131)
\* sum([(1+len(x)-self.sliding_window_size) for x in one_hot])
RECURSIVE TotalNum(_, _)
TotalNum(oh, window) ==
    IF oh = <<>> THEN 0
    ELSE (1 + Head(oh) - window) + TotalNum(Tail(oh), window)

\* Faulty variants: the assert compiled away, and >= written for >.
AssertTotalNumLoose(total, mcs) == TRUE
AssertTotalNumOffByOne(total, mcs) == total >= mcs
\* assert total_num > self.min_cluster_size
AssertTotalNum(total, mcs) == total > mcs

\* Faulty variant: min and max exchanged.
AutoThresholdSwapped(mcs, total) ==
    PyMin(PyMax(LaplaceCap, Rat(total - mcs, total)), Rat(total - 500, total))
\* max(min(0.99, 1-(min_cluster_size/total_num)), 1-(500/total_num))
AutoThreshold(mcs, total) ==
    PyMax(PyMin(LaplaceCap, Rat(total - mcs, total)), Rat(total - 500, total))

\* Faulty variant: the clamp of lines 126-131 left out.
WeakThresholdNoClamp(weak, primary) ==
    IF weak = None THEN primary ELSE weak
\* lines 121-131: default to the primary threshold, then clamp down to it.
WeakThreshold(weak, primary) ==
    LET w == IF weak = None THEN primary ELSE weak
    IN IF RatGt(w, primary) THEN primary ELSE w

\* ------------------------------------------------ metacluster loop (201-250)
Max(S) == CHOOSE m \in S : \A x \in S : x <= m
Range(s) == {s[i] : i \in 1..Len(s)}

\* Faulty variant: <= written for ==.
MetaclusterSizeOffByOne(idx, indices) ==
    Cardinality({i \in 1..Len(indices) : indices[i] <= idx})
\* np.sum(metacluster_idx == metacluster_indices)
MetaclusterSize(idx, indices) ==
    Cardinality({i \in 1..Len(indices) : indices[i] = idx})

\* [size of metacluster idx for idx in range(num_metaclusters)]; entry idx+1
MetaclusterSizes(indices) ==
    [k \in 1..(Max(Range(indices)) + 1) |-> MetaclusterSize(k - 1, indices)]

\* enumerate(metacluster_sizes): pairs <<idx, size>>
Enumerate(sizes) == [k \in 1..Len(sizes) |-> <<k - 1, sizes[k]>>]

\* sorted(pairs, key=lambda x: x[1]): stable, ascending in the size
RECURSIVE InsertBySize(_, _)
InsertBySize(p, sorted) ==
    IF sorted = <<>> THEN <<p>>
    ELSE IF p[2] < Head(sorted)[2] THEN <<p>> \o sorted
    ELSE <<Head(sorted)>> \o InsertBySize(p, Tail(sorted))

RECURSIVE SortedBySizeFrom(_, _)
SortedBySizeFrom(pairs, acc) ==
    IF pairs = <<>> THEN acc
    ELSE SortedBySizeFrom(Tail(pairs), InsertBySize(Head(pairs), acc))

\* Faulty variant: the sort left out.
SortedBySizeUnsorted(pairs) == pairs
SortedBySize(pairs) == SortedBySizeFrom(pairs, <<>>)

\* zip(a, b): as long as the shorter argument
Zip(a, b) ==
    [i \in 1..(IF Len(a) < Len(b) THEN Len(a) ELSE Len(b)) |-> <<a[i], b[i]>>]

\* [x[0] for x in zip(seqlets, metacluster_indices) if x[1]==metacluster_idx]
MetaclusterSeqlets(sq, indices, idx) ==
    LET Keep(x) == x[2] = idx
        kept == SelectSeq(Zip(sq, indices), Keep)
    IN [i \in 1..Len(kept) |-> kept[i][1]]

\* Faulty variant: > 0 written for != 0.
RelevantPairsPositive(names, activities) ==
    LET Keep(x) == x[2] > 0 IN SelectSeq(Zip(names, activities), Keep)
\* [(x[0], x[1]) for x in zip(task_names, metacluster_activities) if x[1] != 0]
RelevantPairs(names, activities) ==
    LET Keep(x) == x[2] # 0 IN SelectSeq(Zip(names, activities), Keep)

\* Faulty variant: the assert compiled away.
AssertSameLengthLoose(sq, indices) == TRUE
\* assert len(seqlets)==len(metacluster_indices)
AssertSameLength(sq, indices) == Len(sq) = Len(indices)

ContribScoresName(key) == key \o "_contrib_scores"
HypotheticalContribsName(key) == key \o "_hypothetical_contribs"

\* ------------------------------------------------------------------ state
VARIABLES
    self,                 \* the TfModiscoWorkflow object's fields
    self_at_entry,        \* self as it was when the current call began
    pc,                   \* position of the current call
    error,                \* the exception that ended the call, or "none"
    task_names, one_hot,  \* arguments of the current call
    total_num,            \* local of the "auto" branch, None when not computed
    laplace_threshold_cdf,
    weak_threshold_for_counting_sign,
    constructed,          \* collaborators constructed or invoked, in order
    track_set,            \* names of the tracks of the TrackSet, in order
    seqlets,              \* multitask_seqlet_creation_results.final_seqlets
    metacluster_indices,
    metacluster_idx_to_activity_pattern,
    todo,                 \* the part of the sorted (idx, size) list not yet visited
    visited,              \* metacluster indices whose iteration has begun
    skipped,              \* metacluster indices that hit `continue`
    engine_calls,         \* invocations of the seqlets-to-patterns engine
    metacluster_idx_to_submetacluster_results,  \* OrderedDict, insertion order
    returned              \* the TfModiscoResults returned, or None

locals == <<total_num, laplace_threshold_cdf, weak_threshold_for_counting_sign,
            constructed, track_set, seqlets, metacluster_indices,
            metacluster_idx_to_activity_pattern, todo, visited, skipped,
            engine_calls, metacluster_idx_to_submetacluster_results, returned>>

vars == <<self, self_at_entry, pc, error, task_names, one_hot, locals>>

\* ------------------------------------------------------- __init__ (71-104)
Workflow(mcs, lap, weak) ==
    [sliding_window_size |-> DefaultSlidingWindowSize,
     flank_size |-> DefaultFlankSize,
     min_cluster_size |-> mcs,
     laplace_threshold_cdf |-> lap,
     weak_threshold_for_counting_sign |-> weak,
     coord_producer |-> Unset,
     metaclusterer |-> Unset]

InitWith(configs) ==
    /\ self \in configs
    /\ self_at_entry = self
    /\ pc = "idle"
    /\ error = "none"
    /\ task_names = <<>>
    /\ one_hot = <<>>
    /\ total_num = None
    /\ laplace_threshold_cdf = None
    /\ weak_threshold_for_counting_sign = None
    /\ constructed = <<>>
    /\ track_set = <<>>
    /\ seqlets = <<>>
    /\ metacluster_indices = <<>>
    /\ metacluster_idx_to_activity_pattern = <<>>
    /\ todo = <<>>
    /\ visited = <<>>
    /\ skipped = <<>>
    /\ engine_calls = <<>>
    /\ metacluster_idx_to_submetacluster_results = <<>>
    /\ returned = None

\* ------------------------------------------------------- __call__ (106-131)
\* Entry of a call and threshold derivation.
Call(tn, oh) ==
    /\ pc \in {"idle", "done", "failed"}
    /\ self_at_entry' = self
    /\ task_names' = tn
    /\ one_hot' = oh
    /\ constructed' = <<>>
    /\ track_set' = <<>>
    /\ seqlets' = <<>>
    /\ metacluster_indices' = <<>>
    /\ metacluster_idx_to_activity_pattern' = <<>>
    /\ todo' = <<>>
    /\ visited' = <<>>
    /\ skipped' = <<>>
    /\ engine_calls' = <<>>
    /\ metacluster_idx_to_submetacluster_results' = <<>>
    /\ returned' = None
    /\ UNCHANGED self
    /\ IF self.laplace_threshold_cdf = Auto
       THEN LET total == TotalNum(oh, self.sliding_window_size) IN
            /\ total_num' = total
            /\ IF AssertTotalNum(total, self.min_cluster_size)
               THEN /\ laplace_threshold_cdf' =
                          AutoThreshold(self.min_cluster_size, total)
                    /\ weak_threshold_for_counting_sign' =
                          WeakThreshold(self.weak_threshold_for_counting_sign,
                              AutoThreshold(self.min_cluster_size, total))
                    /\ pc' = "collaborators"
                    /\ error' = "none"
               ELSE /\ laplace_threshold_cdf' = None
                    /\ weak_threshold_for_counting_sign' = None
                    /\ pc' = "failed"
                    /\ error' = "AssertionError: Increase min_cluster_size"
       ELSE /\ total_num' = None
            /\ laplace_threshold_cdf' = self.laplace_threshold_cdf
            /\ weak_threshold_for_counting_sign' =
                  WeakThreshold(self.weak_threshold_for_counting_sign,
                                self.laplace_threshold_cdf)
            /\ pc' = "collaborators"
            /\ error' = "none"

\* lines 133-146: the coordinate producer and the metaclusterer are built and
\* stored on the workflow object.
BuildCollaborators ==
    /\ pc = "collaborators"
    /\ self' = [self EXCEPT
          !.coord_producer =
              [kind |-> "FixedWindowAroundChunks",
               sliding |-> self.sliding_window_size,
               flank |-> self.flank_size,
               threshold_cdf |-> laplace_threshold_cdf],
          !.metaclusterer =
              [kind |-> "SignBasedPatternClustering",
               min_cluster_size |-> self.min_cluster_size,
               threshold_for_counting_sign |-> laplace_threshold_cdf,
               weak_threshold_for_counting_sign |->
                   weak_threshold_for_counting_sign]]
    /\ constructed' = constructed \o <<"coord_producer", "metaclusterer">>
    /\ pc' = "tracks"
    /\ UNCHANGED <<self_at_entry, error, task_names, one_hot, total_num,
                   laplace_threshold_cdf, weak_threshold_for_counting_sign,
                   track_set, seqlets, metacluster_indices,
                   metacluster_idx_to_activity_pattern, todo, visited, skipped,
                   engine_calls, metacluster_idx_to_submetacluster_results,
                   returned>>

\* lines 148-180: the data tracks, the track set and the per-task threshold
\* transformers.
BuildTracks ==
    /\ pc = "tracks"
    /\ track_set' =
          [i \in 1..Len(task_names) |-> ContribScoresName(task_names[i])]
          \o [i \in 1..Len(task_names) |->
                 HypotheticalContribsName(task_names[i])]
          \o <<"sequence">>
    /\ constructed' = constructed \o <<"TrackSet", "threshold_transformers">>
    /\ pc' = "seqlets"
    /\ UNCHANGED <<self, self_at_entry, error, task_names, one_hot, total_num,
                   laplace_threshold_cdf, weak_threshold_for_counting_sign,
                   seqlets, metacluster_indices,
                   metacluster_idx_to_activity_pattern, todo, visited, skipped,
                   engine_calls, metacluster_idx_to_submetacluster_results,
                   returned>>

\* lines 182-194: seqlet creation returns n final seqlets.
CreateSeqlets(n) ==
    /\ pc = "seqlets"
    /\ seqlets' = [i \in 1..n |-> i]
    /\ constructed' = Append(constructed, "MultiTaskSeqletCreation")
    /\ pc' = "metaclustering"
    /\ UNCHANGED <<self, self_at_entry, error, task_names, one_hot, total_num,
                   laplace_threshold_cdf, weak_threshold_for_counting_sign,
                   track_set, metacluster_indices,
                   metacluster_idx_to_activity_pattern, todo, visited, skipped,
                   engine_calls, metacluster_idx_to_submetacluster_results,
                   returned>>

\* lines 196-209: the metaclusterer returns indices and patterns; max() of an
\* empty index array raises.
Metacluster(indices, patterns) ==
    /\ pc = "metaclustering"
    /\ metacluster_indices' = indices
    /\ metacluster_idx_to_activity_pattern' = patterns
    /\ constructed' = Append(constructed, "metaclusterer_call")
    /\ IF indices = <<>>
       THEN /\ pc' = "failed"
            /\ error' = "ValueError: max() arg is an empty sequence"
            /\ todo' = <<>>
       ELSE /\ pc' = "loop"
            /\ error' = "none"
            /\ todo' = SortedBySize(Enumerate(MetaclusterSizes(indices)))
    /\ UNCHANGED <<self, self_at_entry, task_names, one_hot, total_num,
                   laplace_threshold_cdf, weak_threshold_for_counting_sign,
                   track_set, seqlets, visited, skipped, engine_calls,
                   metacluster_idx_to_submetacluster_results, returned>>

\* lines 211-250: one iteration of the per-metacluster loop.
Dispatch ==
    /\ pc = "loop"
    /\ todo # <<>>
    /\ \E parsed \in {ParsePattern(
                 metacluster_idx_to_activity_pattern[Head(todo)[1] + 1])} :
       \E pairs \in {RelevantPairs(task_names, ParsedValues(parsed))} :
       LET metacluster_idx == Head(todo)[1]
           metacluster_size == Head(todo)[2]
           badToken == \E i \in 1..Len(parsed) : ~parsed[i].ok
           metacluster_activities == ParsedValues(parsed)
           metacluster_seqlets ==
               MetaclusterSeqlets(seqlets, metacluster_indices, metacluster_idx)
           relevant_task_names == [i \in 1..Len(pairs) |-> pairs[i][1]]
           relevant_task_signs == [i \in 1..Len(pairs) |-> pairs[i][2]]
           fails == \/ badToken
                    \/ ~AssertSameLength(seqlets, metacluster_indices)
                    \/ pairs = <<>>
       IN
       /\ visited' = Append(visited, metacluster_idx)
       /\ IF badToken
          THEN /\ pc' = "failed"
               /\ error' = "ValueError: invalid literal for int()"
          ELSE IF ~AssertSameLength(seqlets, metacluster_indices)
          THEN /\ pc' = "failed"
               /\ error' = "AssertionError"
          ELSE IF pairs = <<>>
          THEN \* zip(*[]) yields nothing to unpack into the two targets
               /\ pc' = "failed"
               /\ error' = "ValueError: not enough values to unpack"
          ELSE /\ pc' = "loop"
               /\ error' = "none"
       /\ IF fails
          THEN UNCHANGED <<todo, skipped, engine_calls,
                           metacluster_idx_to_submetacluster_results>>
          ELSE IF Len(relevant_task_names) = 0
          THEN /\ skipped' = Append(skipped, metacluster_idx)
               /\ todo' = Tail(todo)
               /\ UNCHANGED <<engine_calls,
                              metacluster_idx_to_submetacluster_results>>
          ELSE /\ engine_calls' = Append(engine_calls,
                     [metacluster_idx |-> metacluster_idx,
                      track_set |-> track_set,
                      onehot_track_name |-> "sequence",
                      contrib_scores_track_names |->
                          [i \in 1..Len(relevant_task_names) |->
                              ContribScoresName(relevant_task_names[i])],
                      hypothetical_contribs_track_names |->
                          [i \in 1..Len(relevant_task_names) |->
                              HypotheticalContribsName(relevant_task_names[i])],
                      track_signs |-> relevant_task_signs,
                      seqlets |-> metacluster_seqlets])
               /\ metacluster_idx_to_submetacluster_results' =
                     Append(metacluster_idx_to_submetacluster_results,
                         [key |-> metacluster_idx,
                          metacluster_size |-> metacluster_size,
                          activity_pattern |-> metacluster_activities,
                          seqlets |-> metacluster_seqlets])
               /\ todo' = Tail(todo)
               /\ UNCHANGED skipped
    /\ UNCHANGED <<self, self_at_entry, task_names, one_hot, total_num,
                   laplace_threshold_cdf, weak_threshold_for_counting_sign,
                   constructed, track_set, seqlets, metacluster_indices,
                   metacluster_idx_to_activity_pattern, returned>>

\* lines 252-259: the loop is exhausted and the result is assembled.
Return ==
    /\ pc = "loop"
    /\ todo = <<>>
    /\ returned' =
          [kind |-> "TfModiscoResults",
           task_names |-> task_names,
           final_seqlets |-> seqlets,
           seqlet_attribute_vectors_shape |-> <<Len(seqlets), Len(task_names)>>,
           metacluster_indices |-> metacluster_indices,
           metacluster_idx_to_submetacluster_results |->
               metacluster_idx_to_submetacluster_results]
    /\ pc' = "done"
    /\ UNCHANGED <<self, self_at_entry, error, task_names, one_hot, total_num,
                   laplace_threshold_cdf, weak_threshold_for_counting_sign,
                   constructed, track_set, seqlets, metacluster_indices,
                   metacluster_idx_to_activity_pattern, todo, visited, skipped,
                   engine_calls, metacluster_idx_to_submetacluster_results>>

\* ------------------------------------------------------------ input domains
AllTaskNames == <<"task0", "task1", "task2", "task3">>
TaskNameLists == {SubSeq(AllTaskNames, 1, k) : k \in 1..MaxTasks}

SeqsUpTo(S, n) == UNION {[1..k -> S] : k \in 0..n}

\* One pattern per metacluster index 0..max(indices), all patterns with the
\* same number k of tokens, 1 <= k <= MaxTasks.
PatternsFor(indices) ==
    IF indices = <<>> THEN {<<>>}
    ELSE LET num == Max(Range(indices)) + 1 IN
         UNION {{[c \in 1..num |-> JoinPattern(v[c])] :
                     v \in [1..num -> [1..k -> Signs]]} : k \in 1..MaxTasks}

\* The same pattern, one token per task, for every metacluster index.
UniformPatternsFor(indices, ntasks) ==
    IF indices = <<>> THEN {<<>>}
    ELSE LET num == Max(Range(indices)) + 1 IN
         {[c \in 1..num |-> JoinPattern(v)] : v \in [1..ntasks -> Signs]}

\* What the metaclusterer returns for n seqlets: one index per seqlet with any
\* patterns, or (its contract broken) an index array of another length with
\* uniform patterns.
WellFormedOutputs(n) ==
    UNION {{<<indices, patterns>> : patterns \in PatternsFor(indices)} :
              indices \in [1..n -> MetaclusterIdxValues]}

WrongLengthOutputs(n, ntasks) ==
    UNION {{<<indices, patterns>> :
               patterns \in UniformPatternsFor(indices, ntasks)} :
              indices \in {ix \in SeqsUpTo(MetaclusterIdxValues, MaxSeqlets) :
                              Len(ix) # n}}

\* ------------------------------------------------- the workflow, one call
\* A default-constructed workflow object is called once; the collaborators
\* return anything within the bounds.
DefaultWorkflow == Workflow(DefaultMinClusterSize, Auto, DefaultWeakThreshold)
WorkflowOneHots == {<<320>>, <<50, 50>>}

Init == InitWith({DefaultWorkflow})

WorkflowCall ==
    /\ pc = "idle"
    /\ \E tn \in TaskNameLists, oh \in WorkflowOneHots : Call(tn, oh)

WorkflowCreateSeqlets ==
    /\ pc = "seqlets"
    /\ \E n \in 0..MaxSeqlets : CreateSeqlets(n)

WorkflowMetacluster ==
    /\ pc = "metaclustering"
    /\ \E out \in WellFormedOutputs(Len(seqlets))
                   \cup WrongLengthOutputs(Len(seqlets), Len(task_names)) :
          Metacluster(out[1], out[2])

Next ==
    \/ WorkflowCall
    \/ BuildCollaborators
    \/ BuildTracks
    \/ WorkflowCreateSeqlets
    \/ WorkflowMetacluster
    \/ Dispatch
    \/ Return

Spec == Init /\ [][Next]_vars

\* ------------------------------------------- threshold derivation, re-calls
\* Every configuration of the thresholds and of min_cluster_size against every
\* list of input lengths, the workflow object being called again and again;
\* the collaborators return one seqlet in one metacluster active in its task.
MinClusterSizes == {0, 30, 600}
ExplicitThresholds == {Rat(1, 2), Rat(99, 100)}
WeakThresholds == {None, Rat(99, 100), Rat(2, 5)}

ThresholdWorkflows ==
    {Workflow(mcs, lap, weak) : mcs \in MinClusterSizes,
                                lap \in {Auto} \cup ExplicitThresholds,
                                weak \in WeakThresholds}

InitThreshold == InitWith(ThresholdWorkflows)

ThresholdCall ==
    /\ pc \in {"idle", "done", "failed"}
    /\ \E oh \in SeqsUpTo(SeqLens, MaxSeqs) : Call(<<"task0">>, oh)

ThresholdCreateSeqlets == CreateSeqlets(1)

ThresholdMetacluster == Metacluster(<<0>>, <<JoinPattern(<<1>>)>>)

NextThreshold ==
    \/ ThresholdCall
    \/ BuildCollaborators
    \/ BuildTracks
    \/ ThresholdCreateSeqlets
    \/ ThresholdMetacluster
    \/ Dispatch
    \/ Return

SpecThreshold == InitThreshold /\ [][NextThreshold]_vars

\* ------------------------------------------------------------- properties
\* The spec's total candidate window count: a sequence shorter than the
\* window contributes no window.
RECURSIVE CandidateWindowCount(_, _)
CandidateWindowCount(oh, window) ==
    IF oh = <<>> THEN 0
    ELSE (IF 1 + Head(oh) - window > 0 THEN 1 + Head(oh) - window ELSE 0)
         + CandidateWindowCount(Tail(oh), window)

RECURSIVE SumSeq(_)
SumSeq(s) == IF s = <<>> THEN 0 ELSE Head(s) + SumSeq(Tail(s))

InCall == pc # "idle"
TooFewWindows ==
    CandidateWindowCount(one_hot, self.sliding_window_size)
        <= self.min_cluster_size
FailedOnMinClusterSize ==
    /\ pc = "failed"
    /\ error = "AssertionError: Increase min_cluster_size"
    /\ returned = None
MetaclustererCalled == "metaclusterer_call" \in Range(constructed)

\* Seqlets (identifiers, in final_seqlets order) whose metacluster index is idx.
SeqletsOf(idx) ==
    {seqlets[i] : i \in {j \in 1..Len(seqlets) :
                           j <= Len(metacluster_indices)
                           /\ metacluster_indices[j] = idx}}
IsAscending(s) == \A i, j \in 1..Len(s) : i < j => s[i] < s[j]
NonDecreasing(s) == \A i, j \in 1..Len(s) : i < j => s[i] <= s[j]

\* The activity vector the metaclusterer wrote for metacluster idx.
ActivitiesOf(idx) ==
    CHOOSE v \in UNION {[1..k -> Signs] : k \in 1..(MaxTasks + 1)} :
        JoinPattern(v) = metacluster_idx_to_activity_pattern[idx + 1]
SizeOf(idx) ==
    Cardinality({i \in 1..Len(metacluster_indices) : metacluster_indices[i] = idx})

\* C1 as stated: whenever the candidate window count T is at most
\* min_cluster_size the call fails, whatever laplace_threshold_cdf is.
C1_FailsForEveryThreshold ==
    (InCall /\ TooFewWindows) => FailedOnMinClusterSize

\* C1 amended: with laplace_threshold_cdf = "auto", whenever the candidate
\* window count T is at most min_cluster_size the call fails with the
\* "Increase min_cluster_size" assertion and returns nothing.
C1_AutoFailsWhenTooFewWindows ==
    (InCall /\ self.laplace_threshold_cdf = Auto /\ TooFewWindows)
        => FailedOnMinClusterSize

C1_Witness ==
    /\ FailedOnMinClusterSize
    /\ self.laplace_threshold_cdf = Auto
    /\ self.min_cluster_size > 0
    /\ CandidateWindowCount(one_hot, self.sliding_window_size)
           = self.min_cluster_size

\* C2 as stated: a metacluster whose activity pattern is all zero is skipped
\* and the run goes on: its iteration does not end the call in a failure, the
\* engine is not invoked for it and it is not a key of the result mapping.
C2_AllZeroMetaclusterSkipped ==
    \A j \in 1..Len(visited) :
        (/\ Len(seqlets) = Len(metacluster_indices)
         /\ \A t \in DOMAIN ActivitiesOf(visited[j]) :
               ActivitiesOf(visited[j])[t] = 0)
        => /\ ~(pc = "failed" /\ j = Len(visited))
           /\ \A c \in 1..Len(engine_calls) :
                 engine_calls[c].metacluster_idx # visited[j]
           /\ \A r \in 1..Len(metacluster_idx_to_submetacluster_results) :
                 metacluster_idx_to_submetacluster_results[r].key # visited[j]

\* C3: metaclusters are visited and dispatched to the engine in ascending
\* order of size, and the entries of the result mapping are in non-decreasing
\* order of metacluster_size (insertion order).
C3_AscendingSizeOrder ==
    /\ NonDecreasing([j \in 1..Len(visited) |-> SizeOf(visited[j])])
    /\ NonDecreasing([c \in 1..Len(engine_calls) |->
                         SizeOf(engine_calls[c].metacluster_idx)])
    /\ NonDecreasing([r \in 1..Len(metacluster_idx_to_submetacluster_results) |->
          metacluster_idx_to_submetacluster_results[r].metacluster_size])
    /\ pc = "done" =>
          /\ returned.metacluster_idx_to_submetacluster_results
                = metacluster_idx_to_submetacluster_results
          /\ Len(visited) = Max(Range(metacluster_indices)) + 1

C3_Witness ==
    /\ pc = "done"
    /\ Len(returned.metacluster_idx_to_submetacluster_results) = 2
    /\ returned.metacluster_idx_to_submetacluster_results[1].key = 1
    /\ returned.metacluster_idx_to_submetacluster_results[2].key = 0
    /\ returned.metacluster_idx_to_submetacluster_results[1].metacluster_size
         < returned.metacluster_idx_to_submetacluster_results[2].metacluster_size

\* C4: the weak threshold handed to the metaclusterer never exceeds the
\* primary threshold handed to it: it is the primary threshold when
\* weak_threshold_for_counting_sign is None or above the primary threshold,
\* and the supplied value otherwise.
C4_WeakNeverAbovePrimary ==
    constructed # <<>> =>
        LET primary == self.metaclusterer.threshold_for_counting_sign
            weak == self.metaclusterer.weak_threshold_for_counting_sign
            supplied == self.weak_threshold_for_counting_sign
        IN /\ primary = laplace_threshold_cdf
           /\ self.laplace_threshold_cdf # Auto
                 => primary = self.laplace_threshold_cdf
           /\ ~(weak.n * primary.d > primary.n * weak.d)
           /\ IF supplied = None THEN weak = primary
              ELSE IF supplied.n * primary.d > primary.n * supplied.d
                   THEN weak = primary
                   ELSE weak = supplied

C4_Witness ==
    /\ constructed # <<>>
    /\ self.laplace_threshold_cdf = Auto
    /\ self.weak_threshold_for_counting_sign = Rat(99, 100)
    /\ self.metaclusterer.weak_threshold_for_counting_sign = Rat(1, 2)
    /\ self.metaclusterer.threshold_for_counting_sign = Rat(1, 2)

\* C5: with "auto", in a call that passed the min_cluster_size check, the
\* derived threshold is max(min(0.99, 1 - min_cluster_size/T), 1 - 500/T) for
\* the total T the derivation used, lies strictly between 0 and 1, and for
\* T = 2 * min_cluster_size is max(0.5, 1 - 500/T).
C5_AutoThresholdFormula ==
    (InCall /\ self.laplace_threshold_cdf = Auto /\ ~FailedOnMinClusterSize) =>
        LET T == total_num
            m == self.min_cluster_size
            t == laplace_threshold_cdf
            capped == IF 100 * (T - m) < 99 * T THEN Rat(T - m, T)
                      ELSE Rat(99, 100)
            floor == Rat(T - 500, T)
            expected == IF RatLe(floor, capped) THEN capped ELSE floor
            half == IF 2 * (T - 500) > T THEN Rat(T - 500, T) ELSE Rat(1, 2)
        IN /\ T > m
           /\ RatEq(t, expected)
           /\ t.n > 0 /\ t.n < t.d
           /\ T = 2 * m => RatEq(t, half)

C5_Witness ==
    /\ InCall
    /\ self.laplace_threshold_cdf = Auto
    /\ ~FailedOnMinClusterSize
    /\ self.min_cluster_size > 0
    /\ total_num = 2 * self.min_cluster_size
    /\ RatGt(laplace_threshold_cdf, Rat(1, 2))

\* C6: a call that fails the min_cluster_size check (T <= min_cluster_size
\* under "auto") has constructed no track and no collaborator, has invoked
\* none, and has left the fields of the workflow object as they were.
C6_FailsBeforeAnyConstruction ==
    (\/ error = "AssertionError: Increase min_cluster_size"
     \/ (InCall /\ self.laplace_threshold_cdf = Auto
                /\ total_num <= self.min_cluster_size))
    => /\ FailedOnMinClusterSize
       /\ constructed = <<>>
       /\ track_set = <<>>
       /\ seqlets = <<>>
       /\ engine_calls = <<>>
       /\ self = self_at_entry

C6_Witness ==
    /\ FailedOnMinClusterSize
    /\ self.coord_producer # Unset
    /\ self.metaclusterer # Unset
    /\ self = self_at_entry

\* C7: in a completed run every recorded entry has metacluster_size equal to
\* the number of seqlets it holds, which are the final_seqlets with that
\* metacluster index in final_seqlets order, and the sizes of the entries plus
\* the sizes of the skipped metaclusters add up to len(final_seqlets).
C7_MetaclustersPartitionSeqlets ==
    pc = "done" =>
        LET res == returned.metacluster_idx_to_submetacluster_results IN
        /\ \A r \in 1..Len(res) :
              /\ res[r].metacluster_size = Len(res[r].seqlets)
              /\ IsAscending(res[r].seqlets)
              /\ Range(res[r].seqlets) = SeqletsOf(res[r].key)
        /\ \A r1, r2 \in 1..Len(res) : r1 # r2 => res[r1].key # res[r2].key
        /\ SumSeq([r \in 1..Len(res) |-> res[r].metacluster_size])
             + SumSeq([k \in 1..Len(skipped) |-> SizeOf(skipped[k])])
           = Len(returned.final_seqlets)

C7_Witness ==
    /\ pc = "done"
    /\ Len(returned.final_seqlets) = 3
    /\ Len(returned.metacluster_idx_to_submetacluster_results) = 2
    /\ returned.metacluster_idx_to_submetacluster_results[1].seqlets = <<2>>
    /\ returned.metacluster_idx_to_submetacluster_results[2].seqlets = <<1, 3>>

\* C8 as stated: the total T used by threshold derivation is the sum over the
\* input sequences of max(0, 1 + sequence_length - sliding_window_size).
C8_TotalIsClampedSum ==
    (InCall /\ self.laplace_threshold_cdf = Auto) =>
        total_num = CandidateWindowCount(one_hot, self.sliding_window_size)

\* C9 as stated: a length mismatch between final_seqlets and
\* metacluster_indices, or a pattern whose token count differs from the number
\* of tasks, ends the call in a failure in the iteration that meets it,
\* without the engine being invoked for that metacluster.
C9_InvariantViolationsFatal ==
    \A j \in 1..Len(visited) :
        (\/ Len(seqlets) # Len(metacluster_indices)
         \/ Len(ActivitiesOf(visited[j])) # Len(task_names))
        => /\ j = Len(visited)
           /\ pc = "failed"
           /\ returned = None
           /\ \A c \in 1..Len(engine_calls) :
                 engine_calls[c].metacluster_idx # visited[j]

\* C9 amended: when len(final_seqlets) != len(metacluster_indices) the call
\* fails no later than its first loop iteration, returns nothing and never
\* invokes the engine.
C9_LengthMismatchFatal ==
    (MetaclustererCalled /\ Len(seqlets) # Len(metacluster_indices)) =>
        /\ pc \in {"loop", "failed"}
        /\ pc = "loop" => visited = <<>>
        /\ pc = "failed" => error # "none"
        /\ Len(visited) <= 1
        /\ engine_calls = <<>>
        /\ metacluster_idx_to_submetacluster_results = <<>>
        /\ returned = None

C9_Witness ==
    /\ pc = "failed"
    /\ error = "AssertionError"
    /\ Len(seqlets) = 2
    /\ Len(metacluster_indices) = 3
    /\ Len(visited) = 1

\* C10: every recorded metacluster was dispatched to an engine built with the
\* contribution-score and hypothetical-contribution track names of exactly
\* the tasks with a nonzero activity sign, in task_names order, with those
\* signs as track_signs, and run on that metacluster's seqlets; the recorded
\* activity_pattern is the full vector the metaclusterer wrote.
C10_EngineScopedToRelevantTasks ==
    /\ Len(engine_calls) = Len(metacluster_idx_to_submetacluster_results)
    /\ \A r \in 1..Len(metacluster_idx_to_submetacluster_results) :
          LET rec == metacluster_idx_to_submetacluster_results[r]
              call == engine_calls[r]
              acts == rec.activity_pattern
              rel == {t \in 1..Len(task_names) :
                         t <= Len(acts) /\ acts[t] # 0}
              Nth(k) == CHOOSE t \in rel :
                            Cardinality({u \in rel : u < t}) = k - 1
          IN /\ call.metacluster_idx = rec.key
             /\ acts = ActivitiesOf(rec.key)
             /\ Len(call.contrib_scores_track_names) = Cardinality(rel)
             /\ Len(call.hypothetical_contribs_track_names) = Cardinality(rel)
             /\ Len(call.track_signs) = Cardinality(rel)
             /\ \A k \in 1..Cardinality(rel) :
                   /\ call.contrib_scores_track_names[k]
                        = task_names[Nth(k)] \o "_contrib_scores"
                   /\ call.hypothetical_contribs_track_names[k]
                        = task_names[Nth(k)] \o "_hypothetical_contribs"
                   /\ call.track_signs[k] = acts[Nth(k)]
             /\ \A k \in 1..Len(call.contrib_scores_track_names) :
                   call.contrib_scores_track_names[k] \in Range(call.track_set)
             /\ call.seqlets = rec.seqlets
             /\ IsAscending(call.seqlets)
             /\ Range(call.seqlets) = SeqletsOf(rec.key)

C10_Witness ==
    /\ pc = "done"
    /\ task_names = <<"task0", "task1">>
    /\ Len(metacluster_idx_to_submetacluster_results) = 2
    /\ metacluster_idx_to_submetacluster_results[1].activity_pattern = <<0, -1>>
    /\ engine_calls[1].contrib_scores_track_names = <<"task1_contrib_scores">>
    /\ engine_calls[1].track_signs = <<-1>>
    /\ metacluster_idx_to_submetacluster_results[2].activity_pattern = <<1, -1>>
    /\ engine_calls[2].track_signs = <<1, -1>>

====
